---- MODULE Spec2Model ----
(***************************************************************************)
(* A model of bdf_gmail_api_notifier.py (BdFGmailAPINotifier and main).     *)
(*                                                                         *)
(* Text is modelled as a sequence of units.  A unit is a phrase (a token   *)
(* with its length in characters), a single blank or a single newline; a   *)
(* unit cut by a slice of the flattened page text is a fragment that keeps *)
(* the number of characters left and the side that was cut.  A registry    *)
(* pattern is the sequence of its literal phrases, joined by ".*".         *)
(***************************************************************************)
EXTENDS Integers, Sequences, FiniteSets, TLC

VARIABLES
    page,       \* the publications page as the site serves it: a sequence of nodes
    ext,        \* last call of extract_publications_from_page: [called, status, raises, result, raised]
    snd,        \* last call of send_gmail_notification: [called, pubs, failure, ret, raised, delivered]
    mainPc,     \* position of main(): "ask_test", "ask_manual", "manual_run", "start_sched", "loop", "loop_run", "stopped", "crashed"
    schedOn,    \* TRUE once start_scheduler has started the daemon thread
    rdc,        \* per thread, position inside run_daily_check: "out", "started", "checked"
    matching,   \* per thread, the local matching_publications of run_daily_check
    cyc,        \* per thread, what its current (or last) cycle did: [done, fetched, sends, saved]
    cycles,     \* number of calls of run_daily_check so far
    completed,  \* number of calls of run_daily_check that returned
    known,      \* self.known_publications
    file,       \* the state file bdf_gmail_api_data.json: [exists, data]
    savePc,     \* position inside save_data: "idle", "writing"
    buf,        \* what json.dump has still to write
    fileBefore, \* the file as it was when the last save_data began
    saved,      \* result of the last save_data: [state, value, ok]
    ld          \* last call of load_data: [called, seen, ioErr, raised, afterSave]

vars == <<page, ext, snd, mainPc, schedOn, rdc, matching, cyc,
          cycles, completed, known, file, savePc, buf, fileBefore,
          saved, ld>>

extractVars == <<page, ext>>
storeVars == <<known, file, savePc, buf, fileBefore, saved, ld>>
progVars == <<mainPc, schedOn, rdc, matching, cyc, cycles, completed>>
sendVars == <<snd>>

-----------------------------------------------------------------------------
(* Bounds of the model *)

MaxNodes == 2       \* nodes of a page
MaxCycles == 3      \* calls of run_daily_check in one run
MaxRawLen == 3      \* tokens of an arbitrary (possibly corrupted) state file
MaxItems == 2       \* items of a persisted mapping

(* Program constants *)

MinTextLen == 15     \* len(text) > 15, structural pass
MinTitleLen == 15    \* len(title) > 15, full-text pass
ContextRadius == 200 \* match.start() - 200, match.end() + 200
LineMin == 20        \* len(cleaned) > 20
LineMax == 200       \* len(cleaned) < 200

-----------------------------------------------------------------------------
(* Pattern Registry: self.publication_patterns, in table order *)

RegistryOrder ==
    << "monthly_business_survey", "macroeconomic_projections",
       "financial_stability_report", "letter_to_president",
       "balance_of_payments", "observatory_payment_security", "annual_report" >>

RegistryKeys == { RegistryOrder[i] : i \in 1..Len(RegistryOrder) }

publication_patterns ==
    [ id \in RegistryKeys |->
        CASE id = "monthly_business_survey" ->
               [title |-> "Monthly Business Survey",
                pattern |-> <<"monthly business survey">>, priority |-> "High"]
          [] id = "macroeconomic_projections" ->
               [title |-> "Macroeconomic Projections",
                pattern |-> <<"macroeconomic projections">>, priority |-> "High"]
          [] id = "financial_stability_report" ->
               [title |-> "Financial Stability Report",
                pattern |-> <<"financial stability report">>, priority |-> "Highest"]
          [] id = "letter_to_president" ->
               [title |-> "Letter to the President of the Republic",
                pattern |-> <<"letter to the president">>, priority |-> "Medium"]
          [] id = "balance_of_payments" ->
               [title |-> "Balance of Payments Report",
                pattern |-> <<"balance of payments", "international investment">>,
                priority |-> "Medium"]
          [] id = "observatory_payment_security" ->
               [title |-> "Observatory Security Payment Report",
                pattern |-> <<"observatory", "security", "payment">>,
                priority |-> "Medium"]
          [] OTHER ->
               [title |-> "Banque de France Annual Report",
                pattern |-> <<"banque de france annual report">>,
                priority |-> "Medium"] ]

-----------------------------------------------------------------------------
(* Text *)

\* len() of a phrase, in characters
TokLen(t) ==
    CASE t = "Financial Stability Report" -> 26
      [] t = "FINANCIAL STABILITY REPORT" -> 26
      [] t = "monthly business survey" -> 23
      [] t = "12th of June 2025" -> 17
      [] t = "June 12, 2025" -> 13
      [] t = "12/06/2025" -> 10
      [] t = "Home" -> 4
      [] t = "Menu" -> 4
      [] t = "test notification" -> 21
      [] t = "paragraph" -> 230   \* a paragraph of running text with no line break
      [] OTHER -> 1               \* " " and "\n"

\* str.lower() / re.IGNORECASE on a phrase
LowerTok(t) ==
    CASE t = "Financial Stability Report" -> "financial stability report"
      [] t = "FINANCIAL STABILITY REPORT" -> "financial stability report"
      [] t = "Home" -> "home"
      [] t = "Menu" -> "menu"
      [] t = "12th of June 2025" -> "12th of june 2025"
      [] t = "June 12, 2025" -> "june 12, 2025"
      [] OTHER -> t

Full(t) == [t |-> t, n |-> TokLen(t), side |-> "full"]
SP == Full(" ")
NL == Full("\n")

\* a string of several phrases, one blank between two phrases
RECURSIVE Flatten(_)
Flatten(text) ==
    IF text = <<>> THEN <<>>
    ELSE IF Len(text) = 1 THEN <<Full(text[1])>>
    ELSE <<Full(text[1]), SP>> \o Flatten(Tail(text))

\* len() of a string
RECURSIVE CharLen(_)
CharLen(u) == IF u = <<>> THEN 0 ELSE u[1].n + CharLen(Tail(u))

\* offset of the first character of unit i
Off(u, i) == CharLen(SubSeq(u, 1, i - 1))

\* str.lower() of a string
LowerUnits(u) == [i \in 1..Len(u) |-> [u[i] EXCEPT !.t = LowerTok(u[i].t)]]

Min(S) == CHOOSE x \in S : \A y \in S : x <= y
Max(S) == CHOOSE x \in S : \A y \in S : x >= y

-----------------------------------------------------------------------------
(* Regular expressions of the registry, re.search and re.finditer *)

\* a phrase of a pattern matches a whole phrase of the text, ignoring case
Hit(unit, part) == unit.side = "full" /\ LowerTok(unit.t) = part

\* first and last unit of the line unit i is on ("." does not match a newline)
LineBeg(u, i) ==
    LET N == { j \in 1..i : u[j] = NL } IN IF N = {} THEN 1 ELSE Max(N) + 1

LineEnd(u, i) ==
    LET N == { j \in i..Len(u) : u[j] = NL } IN IF N = {} THEN Len(u) ELSE Min(N) - 1

\* index of the earliest unit at which parts[1..k], in this order, have all been
\* found among the units a..b; -1 when they cannot be found
RECURSIVE ChainEnd(_, _, _, _, _)
ChainEnd(parts, k, u, a, b) ==
    IF k = 0 THEN a - 1
    ELSE LET p == ChainEnd(parts, k - 1, u, a, b) IN
         IF p = -1 THEN -1
         ELSE LET H == { j \in (p + 1)..b : Hit(u[j], parts[k]) } IN
              IF H = {} THEN -1 ELSE Min(H)

\* the match of a pattern on the line a..b: leftmost start, greedy ".*"
LineMatch(parts, u, a, b) ==
    LET k == Len(parts)
        s == ChainEnd(parts, 1, u, a, b)
        p == ChainEnd(parts, k - 1, u, a, b)
        H == IF p = -1 THEN {} ELSE { j \in (p + 1)..b : Hit(u[j], parts[k]) }
    IN  IF s = -1 \/ H = {} THEN {} ELSE { [s |-> s, e |-> Max(H)] }

\* re.finditer(pattern, text, re.IGNORECASE): the non-overlapping matches, each
\* the first and last unit it covers
MatchSet(parts, u) ==
    IF Len(parts) = 1
    THEN { [s |-> i, e |-> i] : i \in { j \in 1..Len(u) : Hit(u[j], parts[1]) } }
    ELSE UNION { LineMatch(parts, u, a, LineEnd(u, a)) :
                   a \in { i \in 1..Len(u) : u[i] # NL /\ LineBeg(u, i) = i } }

\* the matches in the order finditer yields them
RECURSIVE MatchSeq(_)
MatchSeq(M) ==
    IF M = {} THEN <<>>
    ELSE LET m == CHOOSE x \in M : \A y \in M : x.s <= y.s
         IN  <<m>> \o MatchSeq(M \ {m})

\* re.search(pattern, text, re.IGNORECASE) is not None
Search(parts, u) == MatchSet(parts, u) # {}

-----------------------------------------------------------------------------
(* Date Extractor and Title Extractor *)

\* which of the three date_patterns a phrase has the shape of; 0 for none
DateShape(t) ==
    CASE t = "12th of June 2025" -> 1
      [] t = "June 12, 2025" -> 2
      [] t = "12/06/2025" -> 3
      [] OTHER -> 0

RECURSIVE DateFrom(_, _)
DateFrom(u, shape) ==
    IF shape > 3 THEN ""
    ELSE LET H == { i \in 1..Len(u) : u[i].side = "full" /\ DateShape(u[i].t) = shape }
         IN  IF H # {} THEN u[Min(H)].t ELSE DateFrom(u, shape + 1)

extract_date_from_context(context) == DateFrom(context, 1)

\* element.parent.get_text(): every node sits alone in its enclosing block
extract_date_near_element(node) == extract_date_from_context(Flatten(node.text))

\* context.split('\n')
RECURSIVE SplitLines(_)
SplitLines(u) ==
    LET N == { j \in 1..Len(u) : u[j] = NL } IN
    IF N = {} THEN <<u>>
    ELSE <<SubSeq(u, 1, Min(N) - 1)>> \o SplitLines(SubSeq(u, Min(N) + 1, Len(u)))

\* line.strip()
RECURSIVE Strip(_)
Strip(line) ==
    IF line = <<>> THEN <<>>
    ELSE IF line[1] = SP THEN Strip(Tail(line))
    ELSE IF line[Len(line)] = SP THEN Strip(SubSeq(line, 1, Len(line) - 1))
    ELSE line

\* re.search(r'^(Home|Menu|Search|Filter)', cleaned, re.IGNORECASE)
Denylisted(cleaned) ==
    /\ cleaned # <<>>
    /\ cleaned[1].side = "full"
    /\ LowerTok(cleaned[1].t) \in {"home", "menu", "search", "filter"}

RECURSIVE FirstTitle(_)
FirstTitle(lines) ==
    IF lines = <<>> THEN <<>>
    ELSE LET cleaned == Strip(lines[1]) IN
         IF CharLen(cleaned) > LineMin /\ CharLen(cleaned) < LineMax /\ ~Denylisted(cleaned)
         THEN cleaned
         ELSE FirstTitle(Tail(lines))

extract_title_from_context(context) == FirstTitle(SplitLines(context))

-----------------------------------------------------------------------------
(* Publication Extractor *)

StructTags == {"h1", "h2", "h3", "h4", "a"}

\* soup.get_text(): every node of the page on a line of its own
RECURSIVE PageText(_)
PageText(pg) ==
    IF pg = <<>> THEN <<>>
    ELSE Flatten(pg[1].text) \o <<NL>> \o PageText(Tail(pg))

\* page_text[cs:ce], offsets in characters
Slice(u, cs, ce) ==
    LET lo(i) == IF Off(u, i) > cs THEN Off(u, i) ELSE cs
        hi(i) == IF Off(u, i) + u[i].n < ce THEN Off(u, i) + u[i].n ELSE ce
        cut(i) == IF hi(i) - lo(i) = u[i].n THEN u[i]
                  ELSE [t |-> u[i].t, n |-> hi(i) - lo(i),
                        side |-> IF lo(i) > Off(u, i) THEN "tail" ELSE "head"]
        keep == { i \in 1..Len(u) : hi(i) > lo(i) }
    IN  IF keep = {} THEN <<>>
        ELSE [ j \in 1..Cardinality(keep) |-> cut(Min(keep) + j - 1) ]

\* the context window of a match
Context(u, m) ==
    LET start == Off(u, m.s)
        end == Off(u, m.e) + u[m.e].n
        context_start == IF start - ContextRadius > 0 THEN start - ContextRadius ELSE 0
        context_end == IF end + ContextRadius < CharLen(u) THEN end + ContextRadius
                       ELSE CharLen(u)
    IN  Slice(u, context_start, context_end)

\* for pub_id, pub_config in publication_patterns.items(): if re.search(...): ... break
LastMatch(text) ==
    LET H == { i \in 1..Len(RegistryOrder) :
                 Search(publication_patterns[RegistryOrder[i]].pattern, text) }
    IN  IF H = {} THEN 0 ELSE Max(H)

FirstMatch(text) ==
    LET H == { i \in 1..Len(RegistryOrder) :
                 Search(publication_patterns[RegistryOrder[i]].pattern, text) }
    IN  IF H = {} THEN 0 ELSE Min(H)

PubData(pub_id, title, date_text, source_tag) ==
    [pub_id |-> pub_id, title |-> title, date_text |-> date_text,
     pattern_matched |-> publication_patterns[pub_id].pattern,
     priority |-> publication_patterns[pub_id].priority,
     source_tag |-> source_tag]

\* the records one node contributes in the structural pass
NodeRecords(node) ==
    LET text == Flatten(node.text) IN
    IF node.tag \in StructTags /\ text # <<>> /\ CharLen(text) > MinTextLen
          /\ FirstMatch(text) # 0
    THEN << PubData(RegistryOrder[FirstMatch(text)], text,
                    extract_date_near_element(node), node.tag) >>
    ELSE <<>>

\* method 1: for element in soup.find_all(['h1', 'h2', 'h3', 'h4', 'a'])
RECURSIVE StructuralPass(_)
StructuralPass(pg) ==
    IF pg = <<>> THEN <<>> ELSE NodeRecords(pg[1]) \o StructuralPass(Tail(pg))

\* any(pub['title'].lower() == title.lower() for pub in publications)
IsDuplicate(publications, title) ==
    \E i \in 1..Len(publications) :
        LowerUnits(publications[i].title) = LowerUnits(title)

\* the (pub_id, match) pairs of method 2, in the order the two loops visit them
RECURSIVE TextJobs(_, _)
TextJobs(page_text, i) ==
    IF i > Len(RegistryOrder) THEN <<>>
    ELSE LET ms == MatchSeq(MatchSet(publication_patterns[RegistryOrder[i]].pattern,
                                     page_text))
         IN  [ j \in 1..Len(ms) |-> [pub_id |-> RegistryOrder[i], m |-> ms[j]] ]
                \o TextJobs(page_text, i + 1)

\* method 2: the body of the inner loop, over all pairs
RECURSIVE FullTextPass(_, _, _)
FullTextPass(publications, page_text, jobs) ==
    IF jobs = <<>> THEN publications
    ELSE LET context == Context(page_text, jobs[1].m)
             title == extract_title_from_context(context)
             date_text == extract_date_from_context(context)
             add == /\ title # <<>>
                    /\ CharLen(title) > MinTitleLen
                    /\ ~IsDuplicate(publications, title)
         IN  FullTextPass(
                 IF add THEN Append(publications,
                                    PubData(jobs[1].pub_id, title, date_text, "text_search"))
                 ELSE publications,
                 page_text, Tail(jobs))

\* the try block of extract_publications_from_page on a page that was fetched
Publications(pg) ==
    FullTextPass(StructuralPass(pg), PageText(pg), TextJobs(PageText(pg), 1))

\* extract_publications_from_page without its except clause
ExtractNoCatch(pg, status, raises) ==
    IF status # "ok" \/ raises
    THEN [result |-> <<>>, raised |-> TRUE]
    ELSE [result |-> Publications(pg), raised |-> FALSE]

\* extract_publications_from_page: the outcome of the fetch, then both passes;
\* except Exception: return []
extract_publications_from_page(pg, status, raises) ==
    IF status # "ok" \/ raises
    THEN [result |-> <<>>, raised |-> FALSE]
    ELSE [result |-> Publications(pg), raised |-> FALSE]

-----------------------------------------------------------------------------
(* Known-Publications Store: the state file as JSON tokens *)

JStr == {"k1", "k2"}                  \* string literals
JNum == {"7"}                         \* a number literal
JTok == {"{", "}", ":", ","} \cup JStr \cup JNum

EmptyDict == [kind |-> "dict", items |-> <<>>, s |-> ""]
Undefined == [kind |-> "undefined", items |-> <<>>, s |-> ""]

\* d[k] = v on a dict kept as its items in insertion order
SetItem(items, k, v) ==
    IF \E i \in 1..Len(items) : items[i][1] = k
    THEN [i \in 1..Len(items) |-> IF items[i][1] = k THEN <<k, v>> ELSE items[i]]
    ELSE Append(items, <<k, v>>)

\* the members of a JSON object from token i on: key ":" value ("," | "}")
RECURSIVE ParseMembers(_, _, _)
ParseMembers(data, i, items) ==
    IF i + 3 > Len(data) THEN [ok |-> FALSE, items |-> <<>>]
    ELSE IF ~(data[i] \in JStr /\ data[i + 1] = ":" /\ data[i + 2] \in JStr \cup JNum)
    THEN [ok |-> FALSE, items |-> <<>>]
    ELSE IF data[i + 3] = "}"
    THEN [ok |-> i + 3 = Len(data), items |-> SetItem(items, data[i], data[i + 2])]
    ELSE IF data[i + 3] = ","
    THEN ParseMembers(data, i + 4, SetItem(items, data[i], data[i + 2]))
    ELSE [ok |-> FALSE, items |-> <<>>]

\* json.load: the value of the document, or ok = FALSE for JSONDecodeError
JsonLoad(data) ==
    IF data = <<>> THEN [ok |-> FALSE, kind |-> "none", items |-> <<>>, s |-> ""]
    ELSE IF Len(data) = 1 /\ data[1] \in JStr
    THEN [ok |-> TRUE, kind |-> "str", items |-> <<>>, s |-> data[1]]
    ELSE IF Len(data) = 1 /\ data[1] \in JNum
    THEN [ok |-> TRUE, kind |-> "num", items |-> <<>>, s |-> data[1]]
    ELSE IF data = <<"{", "}">>
    THEN [ok |-> TRUE, kind |-> "dict", items |-> <<>>, s |-> ""]
    ELSE IF data[1] = "{"
    THEN LET r == ParseMembers(data, 2, <<>>)
         IN  [ok |-> r.ok, kind |-> "dict", items |-> r.items, s |-> ""]
    ELSE [ok |-> FALSE, kind |-> "none", items |-> <<>>, s |-> ""]

RECURSIVE DumpItems(_)
DumpItems(items) ==
    IF items = <<>> THEN <<>>
    ELSE IF Len(items) = 1 THEN <<items[1][1], ":", items[1][2]>>
    ELSE <<items[1][1], ":", items[1][2], ",">> \o DumpItems(Tail(items))

\* json.dump: the chunks written, in order
JsonDump(value) ==
    IF value.kind = "dict" THEN <<"{">> \o DumpItems(value.items) \o <<"}">>
    ELSE <<value.s>>

\* load_data without its except clause
LoadNoCatch(f, ioErr) ==
    IF ~f.exists THEN [known |-> EmptyDict, raised |-> FALSE]
    ELSE IF ioErr THEN [known |-> Undefined, raised |-> TRUE]
    ELSE LET v == JsonLoad(f.data) IN
         IF ~v.ok THEN [known |-> Undefined, raised |-> TRUE]
         ELSE IF v.kind = "num"
         THEN [known |-> Undefined, raised |-> TRUE]
         ELSE [known |-> [kind |-> v.kind, items |-> v.items, s |-> v.s],
               raised |-> FALSE]

\* load_data: os.path.exists, open, json.load, len(self.known_publications);
\* except Exception: self.known_publications = {}
load_data(f, ioErr) ==
    IF ~f.exists THEN [known |-> EmptyDict, raised |-> FALSE]
    ELSE IF ioErr THEN [known |-> EmptyDict, raised |-> FALSE]
    ELSE LET v == JsonLoad(f.data) IN
         IF ~v.ok THEN [known |-> EmptyDict, raised |-> FALSE]
         ELSE IF v.kind = "num"   \* len() of a number raises TypeError
         THEN [known |-> EmptyDict, raised |-> FALSE]
         ELSE [known |-> [kind |-> v.kind, items |-> v.items, s |-> v.s],
               raised |-> FALSE]

\* == on two values of known_publications (a dict compares without order)
StateEq(a, b) ==
    /\ a.kind = b.kind
    /\ a.s = b.s
    /\ { a.items[i] : i \in 1..Len(a.items) } = { b.items[i] : i \in 1..Len(b.items) }

-----------------------------------------------------------------------------
(* Notifier *)

\* create_notification_html: one block per record in input order;
\* self.publication_patterns[pub['pub_id']] raises KeyError for an unknown pub_id
create_notification_html(pubs) ==
    IF \E i \in 1..Len(pubs) : pubs[i].pub_id \notin RegistryKeys
    THEN [raised |-> TRUE, html |-> <<>>]
    ELSE [raised |-> FALSE,
          html |-> [i \in 1..Len(pubs) |->
                      [n |-> i, title |-> pubs[i].title,
                       date |-> IF pubs[i].date_text = "" THEN "unknown"
                                ELSE pubs[i].date_text,
                       category |-> publication_patterns[pubs[i].pub_id].title,
                       priority |-> pubs[i].priority,
                       source_tag |-> pubs[i].source_tag]]]

\* send_gmail_notification without its except clause
SendNoCatch(pubs, failure) ==
    LET body == create_notification_html(pubs) IN
    IF body.raised \/ failure # "none"
    THEN [ret |-> FALSE, raised |-> TRUE, delivered |-> <<>>]
    ELSE [ret |-> TRUE, raised |-> FALSE, delivered |-> body.html]

\* send_gmail_notification: render, build the MIME message, messages().send();
\* failure is what the environment does: "none", "build" or "transport";
\* except Exception: return False
send_gmail_notification(pubs, failure) ==
    LET body == create_notification_html(pubs) IN
    IF body.raised \/ failure # "none"
    THEN [ret |-> FALSE, raised |-> FALSE, delivered |-> <<>>]
    ELSE [ret |-> TRUE, raised |-> FALSE, delivered |-> body.html]

\* the list test_notification builds
test_publications ==
    << [pub_id |-> "test", title |-> <<Full("test notification")>>,
        date_text |-> "2025-06-23", pattern_matched |-> <<"test">>,
        priority |-> "Test", source_tag |-> "manual_test"] >>

\* check_for_new_publications: logs and returns None; it makes no call of
\* extract_publications_from_page (fetched) and none of save_data (saved)
check_for_new_publications ==
    [none |-> TRUE, pubs |-> <<>>, fetched |-> FALSE, saved |-> FALSE]

\* if matching_publications:
Truthy(m) == ~m.none /\ m.pubs # <<>>

-----------------------------------------------------------------------------
(* Inputs *)

Threads == {"main", "sched"}
NetStates == {"ok", "http500", "timeout"}
Failures == {"none", "build", "transport"}
PageTags == {"h2", "a", "p"}

\* the texts a node may carry
SampleTexts ==
    { <<"Financial Stability Report">>,
      <<"FINANCIAL STABILITY REPORT">>,
      <<"Financial Stability Report", "monthly business survey">>,
      <<"Financial Stability Report", "12th of June 2025">>,
      <<"Home", "Financial Stability Report">>,
      <<"paragraph">>,
      <<"Menu">> }

Nodes == [tag : PageTags, text : SampleTexts]
PagesUpTo(n) == UNION { [1..k -> Nodes] : k \in 0..n }

\* the sequences of at most n elements of S
SeqsUpTo(S, n) == UNION { [1..k -> S] : k \in 0..n }

Prefixes(q) == { SubSeq(q, 1, k) : k \in 0..Len(q) }

\* state files: absent, arbitrary short token sequences, and the documents (with
\* their truncations) that hold up to MaxItems members
FileDatas ==
    SeqsUpTo(JTok, MaxRawLen)
      \cup UNION { Prefixes(<<"{">> \o DumpItems(m) \o <<"}">>) :
                     m \in SeqsUpTo(JStr \X (JStr \cup JNum), MaxItems) }

Files == { [exists |-> FALSE, data |-> <<>>] } \cup [exists : {TRUE}, data : FileDatas]

NoCycle == [done |-> FALSE, fetched |-> FALSE, sends |-> 0, saved |-> FALSE]
NoExt == [called |-> FALSE, status |-> "ok", raises |-> FALSE, result |-> <<>>,
          raised |-> FALSE]
NoSnd == [called |-> FALSE, pubs |-> <<>>, failure |-> "none", ret |-> FALSE,
          raised |-> FALSE, delivered |-> <<>>]
NoSave == [done |-> FALSE, ok |-> FALSE, value |-> EmptyDict]

-----------------------------------------------------------------------------
(* Construction: BdFGmailAPINotifier.__init__ ends with self.load_data() *)

InitStore(F) ==
    /\ file \in F
    /\ \E ioErr \in (IF file.exists THEN BOOLEAN ELSE {FALSE}) :
         LET r == load_data(file, ioErr) IN
         /\ known = r.known
         /\ ld = [called |-> TRUE, seen |-> file, ioErr |-> ioErr,
                  raised |-> r.raised, afterSave |-> FALSE]
    /\ savePc = "idle"
    /\ buf = <<>>
    /\ fileBefore = file
    /\ saved = NoSave

InitProgram(pc) ==
    /\ mainPc = pc
    /\ schedOn = FALSE
    /\ rdc = [t \in Threads |-> "out"]
    /\ matching = [t \in Threads |-> check_for_new_publications]
    /\ cyc = [t \in Threads |-> NoCycle]
    /\ cycles = 0
    /\ completed = 0
    /\ ext = NoExt
    /\ snd = NoSnd

-----------------------------------------------------------------------------
(* Notifier calls *)

\* a call of send_gmail_notification(pubs); an exception that escapes ends the process
Send(pubs, failure) ==
    LET r == send_gmail_notification(pubs, failure) IN
    snd' = [called |-> TRUE, pubs |-> pubs, failure |-> failure, ret |-> r.ret,
            raised |-> r.raised, delivered |-> r.delivered]

-----------------------------------------------------------------------------
(* run_daily_check, statement by statement, in thread t *)

\* lines 391-392: the call begins
Enter(t) ==
    /\ rdc[t] = "out"
    /\ cycles < MaxCycles
    /\ rdc' = [rdc EXCEPT ![t] = "started"]
    /\ cyc' = [cyc EXCEPT ![t] = NoCycle]
    /\ cycles' = cycles + 1
    /\ UNCHANGED <<matching, completed>>

\* line 395: matching_publications = self.check_for_new_publications()
RdcCheck(t) ==
    /\ rdc[t] = "started"
    /\ mainPc # "stopped"
    /\ rdc' = [rdc EXCEPT ![t] = "checked"]
    /\ matching' = [matching EXCEPT ![t] = check_for_new_publications]
    /\ cyc' = [cyc EXCEPT ![t].fetched = check_for_new_publications.fetched,
                          ![t].saved = check_for_new_publications.saved]
    /\ UNCHANGED <<mainPc, schedOn, cycles, completed>>
    /\ UNCHANGED <<extractVars, storeVars, sendVars>>

\* lines 397-405: the notify decision, then the call returns to its caller
RdcFinish(t) ==
    /\ rdc[t] = "checked"
    /\ mainPc # "stopped"
    /\ \E failure \in Failures :
         IF Truthy(matching[t])
         THEN /\ Send(matching[t].pubs, failure)
              /\ cyc' = [cyc EXCEPT ![t].done = TRUE, ![t].sends = @ + 1]
         ELSE /\ UNCHANGED sendVars
              /\ cyc' = [cyc EXCEPT ![t].done = TRUE]
    /\ rdc' = [rdc EXCEPT ![t] = "out"]
    /\ completed' = completed + 1
    /\ mainPc' = IF t = "main"
                 THEN (IF mainPc = "manual_run" THEN "start_sched" ELSE "loop")
                 ELSE mainPc
    /\ UNCHANGED <<schedOn, matching, cycles>>
    /\ UNCHANGED <<extractVars, storeVars>>

-----------------------------------------------------------------------------
(* main() and the scheduler thread *)

\* line 452-454: the test prompt; test_notification() on 'y'
AskTest ==
    /\ mainPc = "ask_test"
    /\ \E answer \in BOOLEAN, failure \in Failures :
         IF answer THEN Send(test_publications, failure) ELSE UNCHANGED sendVars
    /\ mainPc' = "ask_manual"
    /\ UNCHANGED <<schedOn, rdc, matching, cyc, cycles, completed>>
    /\ UNCHANGED <<extractVars, storeVars>>

\* line 457-459: the manual prompt; run_daily_check() on 'y'
AskManual ==
    /\ mainPc = "ask_manual"
    /\ \/ /\ Enter("main")
          /\ mainPc' = "manual_run"
       \/ /\ mainPc' = "start_sched"
          /\ UNCHANGED <<rdc, matching, cyc, cycles, completed>>
    /\ UNCHANGED schedOn
    /\ UNCHANGED <<extractVars, storeVars, sendVars>>

\* line 462, start_scheduler: the job is registered and the daemon thread started
StartScheduler ==
    /\ mainPc = "start_sched"
    /\ mainPc' = "loop"
    /\ schedOn' = TRUE
    /\ UNCHANGED <<rdc, matching, cyc, cycles, completed>>
    /\ UNCHANGED <<extractVars, storeVars, sendVars>>

\* lines 471-474: input() returned 'm'
ManualTrigger ==
    /\ mainPc = "loop"
    /\ Enter("main")
    /\ mainPc' = "loop_run"
    /\ UNCHANGED schedOn
    /\ UNCHANGED <<extractVars, storeVars, sendVars>>

\* lines 415-417: schedule.run_pending() finds the 07:00 job due
ScheduledTrigger ==
    /\ schedOn
    /\ mainPc # "stopped"
    /\ Enter("sched")
    /\ UNCHANGED <<mainPc, schedOn>>
    /\ UNCHANGED <<extractVars, storeVars, sendVars>>

\* lines 475-476: KeyboardInterrupt ends main(), also out of a running check, and
\* with it the daemon thread
Interrupt ==
    /\ mainPc \in {"loop", "loop_run"}
    /\ mainPc' = "stopped"
    /\ rdc' = [t \in Threads |-> "out"]
    /\ UNCHANGED <<schedOn, matching, cyc, cycles, completed>>
    /\ UNCHANGED <<extractVars, storeVars, sendVars>>

Init ==
    /\ page \in PagesUpTo(1)
    /\ InitStore({ f \in Files : Len(f.data) <= 1 })
    /\ InitProgram("ask_test")

Next ==
    \/ AskTest
    \/ AskManual
    \/ StartScheduler
    \/ ManualTrigger
    \/ ScheduledTrigger
    \/ \E t \in Threads : RdcCheck(t)
    \/ \E t \in Threads : RdcFinish(t)
    \/ Interrupt

\* the program: main() with its scheduler thread
Spec == Init /\ [][Next]_vars

-----------------------------------------------------------------------------
(* The Publication Extractor and the Notifier, called on a constructed object *)

\* a call of extract_publications_from_page(); status is what session.get and
\* raise_for_status do, raises whether parsing or extraction throws in the try block
CallExtract ==
    /\ mainPc = "start_sched"
    /\ ~ext.called
    /\ \E status \in NetStates, raises \in BOOLEAN :
         LET r == extract_publications_from_page(page, status, raises) IN
         /\ ext' = [called |-> TRUE, status |-> status, raises |-> raises,
                    result |-> r.result, raised |-> r.raised]
         /\ mainPc' = IF r.raised THEN "crashed" ELSE mainPc
    /\ UNCHANGED <<page, schedOn, rdc, matching, cyc, cycles, completed>>
    /\ UNCHANGED <<storeVars, sendVars>>

\* the Notifier is handed the records of the last extraction
Notify ==
    /\ mainPc \notin {"stopped", "crashed"}
    /\ ext.called
    /\ ext.result # <<>>
    /\ \E failure \in Failures :
         /\ Send(ext.result, failure)
         /\ mainPc' = IF send_gmail_notification(ext.result, failure).raised
                      THEN "crashed" ELSE mainPc
    /\ UNCHANGED <<schedOn, rdc, matching, cyc, cycles, completed>>
    /\ UNCHANGED <<extractVars, storeVars>>

\* a call of test_notification()
TestNotification ==
    /\ mainPc \notin {"stopped", "crashed"}
    /\ \E failure \in Failures :
         /\ Send(test_publications, failure)
         /\ mainPc' = IF send_gmail_notification(test_publications, failure).raised
                      THEN "crashed" ELSE mainPc
    /\ UNCHANGED <<schedOn, rdc, matching, cyc, cycles, completed>>
    /\ UNCHANGED <<extractVars, storeVars>>

InitExtract ==
    /\ page \in PagesUpTo(MaxNodes)
    /\ InitStore({ [exists |-> FALSE, data |-> <<>>] })
    /\ InitProgram("ask_manual")

NextExtract ==
    \/ CallExtract
    \/ AskManual
    \/ RdcCheck("main")
    \/ RdcFinish("main")

\* the extractor on every page of the bounded set, with the check cycle of the
\* manual prompt
SpecExtract == InitExtract /\ [][NextExtract]_vars

InitSend ==
    /\ page \in PagesUpTo(1)
    /\ InitStore({ [exists |-> FALSE, data |-> <<>>] })
    /\ InitProgram("ask_manual")

NextSend ==
    \/ CallExtract
    \/ Notify
    \/ TestNotification
    \/ AskManual
    \/ RdcCheck("main")
    \/ RdcFinish("main")

\* the notifier on the records of every one-node page and on the test record,
\* with the check cycle of the manual prompt
SpecSend == InitSend /\ [][NextSend]_vars

-----------------------------------------------------------------------------
(* The Known-Publications Store: save_data step by step, load_data *)

\* line 143: open(self.data_file, 'w') truncates the file, or fails and leaves it
SaveOpen ==
    /\ savePc = "idle"
    /\ mainPc \notin {"stopped", "crashed"}
    /\ fileBefore' = file
    /\ \E openFails \in BOOLEAN :
         IF openFails
         THEN /\ saved' = [done |-> TRUE, ok |-> FALSE, value |-> known]
              /\ UNCHANGED <<file, savePc, buf>>
         ELSE /\ saved' = [done |-> FALSE, ok |-> FALSE, value |-> known]
              /\ file' = [exists |-> TRUE, data |-> <<>>]
              /\ buf' = JsonDump(known)
              /\ savePc' = "writing"
    /\ UNCHANGED <<known, ld>>
    /\ UNCHANGED <<progVars, extractVars, sendVars>>

\* line 144: json.dump writes the next chunk
SaveWrite ==
    /\ savePc = "writing"
    /\ buf # <<>>
    /\ file' = [file EXCEPT !.data = Append(@, Head(buf))]
    /\ buf' = Tail(buf)
    /\ UNCHANGED <<known, savePc, fileBefore, saved, ld>>
    /\ UNCHANGED <<progVars, extractVars, sendVars>>

\* a write fails (or the process dies) before the document is complete: the
\* with block closes the file and the except clause logs
SaveFail ==
    /\ savePc = "writing"
    /\ buf # <<>>
    /\ savePc' = "idle"
    /\ buf' = <<>>
    /\ saved' = [saved EXCEPT !.done = TRUE, !.ok = FALSE]
    /\ UNCHANGED <<known, file, fileBefore, ld>>
    /\ UNCHANGED <<progVars, extractVars, sendVars>>

\* lines 144-145: the document is complete, the file is closed
SaveClose ==
    /\ savePc = "writing"
    /\ buf = <<>>
    /\ savePc' = "idle"
    /\ saved' = [saved EXCEPT !.done = TRUE, !.ok = TRUE]
    /\ UNCHANGED <<known, file, buf, fileBefore, ld>>
    /\ UNCHANGED <<progVars, extractVars, sendVars>>

\* a call of load_data(); ioErr: open or read fails with an OSError
LoadData ==
    /\ savePc = "idle"
    /\ mainPc \notin {"stopped", "crashed"}
    /\ \E ioErr \in BOOLEAN :
         LET r == load_data(file, ioErr) IN
         /\ known' = r.known
         /\ ld' = [called |-> TRUE, seen |-> file, ioErr |-> ioErr,
                   raised |-> r.raised, afterSave |-> saved.done /\ saved.ok]
         /\ mainPc' = IF r.raised THEN "crashed" ELSE mainPc
    /\ UNCHANGED <<file, savePc, buf, fileBefore, saved>>
    /\ UNCHANGED <<schedOn, rdc, matching, cyc, cycles, completed>>
    /\ UNCHANGED <<extractVars, sendVars>>

InitStoreSpec ==
    /\ page = <<>>
    /\ InitStore(Files)
    /\ InitProgram("loop")

NextStore ==
    \/ SaveOpen
    \/ SaveWrite
    \/ SaveFail
    \/ SaveClose
    \/ LoadData

\* the store on every state file of the bounded set
SpecStore == InitStoreSpec /\ [][NextStore]_vars

-----------------------------------------------------------------------------
(* Properties *)

\* C1: at most one execution of run_daily_check is in progress at any time,
\* whether it was started by the scheduler thread or by 'm' in the foreground loop.
C1_OneCheckAtATime == Cardinality({ t \in Threads : rdc[t] # "out" }) <= 1

\* C2: in every completed check cycle the page was fetched and extracted before
\* the notify decision, and the mail send operation was invoked in that cycle
\* exactly when the page yields at least one matching publication record.
C2_FetchExtractNotify ==
    \A t \in Threads :
        cyc[t].done =>
            /\ cyc[t].fetched
            /\ (Publications(page) # <<>>) <=> (cyc[t].sends >= 1)

\* C3: the store is loaded at process start, and when a check starts every check
\* that completed before it has been followed by a save of known_publications.
C3_SaveAfterEveryCheck ==
    [][ cycles' > cycles => (ld.called /\ \A t \in Threads : cyc[t].done => cyc[t].saved) ]_vars

\* C4: at every point during and after a save_data call, interrupted or not, the
\* state file is either the complete previous file or the complete new document.
C4_AtomicSave ==
    (savePc = "writing" \/ saved.done) =>
        \/ file = fileBefore
        \/ file = [exists |-> TRUE, data |-> JsonDump(saved.value)]

\* C5: when the fetch fails or parsing/extraction raises, the extractor returns
\* the empty list and no exception escapes it; the check cycle sends no mail and
\* the process keeps running.
C5_FailureIsEmptyResult ==
    (ext.called /\ (ext.status # "ok" \/ ext.raises)) =>
        /\ ext.result = <<>>
        /\ ~ext.raised
        /\ mainPc # "crashed"
        /\ ~snd.called
        /\ \A t \in Threads : cyc[t].done => cyc[t].sends = 0

C5_Witness ==
    /\ ext.called
    /\ ext.status = "http500"
    /\ cyc["main"].done
    /\ page # <<>>

\* C6: the list the extractor returns holds no two records whose titles are
\* equal under case-insensitive comparison.
C6_NoDuplicateTitles ==
    \A i, j \in 1..Len(ext.result) :
        i < j => LowerUnits(ext.result[i].title) # LowerUnits(ext.result[j].title)

\* the patterns of the registry, by position in the table, that match a text
MatchingEntries(text) ==
    { i \in 1..Len(RegistryOrder) :
        Search(publication_patterns[RegistryOrder[i]].pattern, text) }

\* the nodes of the page the structural pass must emit a record for
Qualifying(pg) ==
    { n \in 1..Len(pg) :
        /\ pg[n].tag \in StructTags
        /\ CharLen(Flatten(pg[n].text)) > MinTextLen
        /\ MatchingEntries(Flatten(pg[n].text)) # {} }

\* C7: the records of the structural pass are, in document order, exactly one
\* record for each heading or link whose text is longer than the threshold and
\* matches a pattern, with the pub_id of the first matching entry in table order.
C7_FirstMatchWins ==
    (ext.called /\ ext.status = "ok" /\ ~ext.raises) =>
        LET S == SelectSeq(ext.result, LAMBDA r : r.source_tag # "text_search")
            Q == Qualifying(page)
        IN  /\ Len(S) = Cardinality(Q)
            /\ \A n \in Q :
                 LET k == Cardinality({ q \in Q : q <= n })
                     text == Flatten(page[n].text)
                 IN  /\ S[k].title = text
                     /\ S[k].source_tag = page[n].tag
                     /\ \E i \in MatchingEntries(text) :
                          /\ S[k].pub_id = RegistryOrder[i]
                          /\ \A j \in MatchingEntries(text) : i <= j

C7_Witness ==
    /\ ext.called
    /\ \E i \in 1..Len(ext.result) :
         /\ ext.result[i].source_tag = "a"
         /\ Cardinality(MatchingEntries(ext.result[i].title)) = 2
         /\ ext.result[i].pub_id = "monthly_business_survey"
    /\ \E n \in 1..Len(page) : page[n].tag = "h2" /\ page[n].text = <<"Menu">>

\* C8: every record handed to the Notifier has a pub_id that is a key of the
\* Pattern Registry.
C8_PubIdInRegistry ==
    snd.called => \A i \in 1..Len(snd.pubs) : snd.pubs[i].pub_id \in RegistryKeys

\* C9: send_gmail_notification never raises; it returns False on any failure of
\* rendering, building or transport and True on success, the message being
\* delivered exactly then; a cycle makes at most one send attempt.
C9_SendNeverRaises ==
    /\ snd.called =>
         /\ ~snd.raised
         /\ mainPc # "crashed"
         /\ snd.ret <=> /\ snd.failure = "none"
                        /\ \A i \in 1..Len(snd.pubs) : snd.pubs[i].pub_id \in RegistryKeys
         /\ snd.ret <=> (snd.delivered # <<>>)
    /\ \A t \in Threads : cyc[t].sends <= 1

C9_Witness ==
    /\ snd.called
    /\ snd.failure = "transport"
    /\ ~snd.ret
    /\ snd.pubs # <<>>
    /\ \A i \in 1..Len(snd.pubs) : snd.pubs[i].pub_id \in RegistryKeys
    /\ cyc["main"].done

\* the mappings of at most MaxItems items, as items with distinct keys
Mappings ==
    { m \in SeqsUpTo(JStr \X (JStr \cup JNum), MaxItems) :
        \A i, j \in 1..Len(m) : i # j => m[i][1] # m[j][1] }

DocumentOf(m) == <<"{">> \o DumpItems(m) \o <<"}">>

====
